---- MODULE Spec2Model ----
(***************************************************************************)
(* Subtitle translator (src/app.py): subtitle codec (parse_srt,            *)
(* rebuild_srt), chunker (chunk_text), response sanitizer                  *)
(* (clean_json_text), translation protocol (translate_chunk) and the job   *)
(* loop that drives them over the Streamlit session state.                 *)
(*                                                                         *)
(* Strings are sequences of one-lexeme strings.  A lexeme is one           *)
(* character, except that a whole time range                               *)
(* "HH:MM:SS,mmm --> HH:MM:SS,mmm", a code-fence marker (three            *)
(* backquotes) and the body of a JSON object are each one lexeme.          *)
(***************************************************************************)
EXTENDS Integers, Sequences, FiniteSets, TLC

VARIABLES
    fname,              \* pure-function harness: the function under test
    fin,                \* its arguments
    fmid,               \* the records parse_srt returned, kept for the rebuild
    fout,               \* its return value
    fpc,                \* "call" before the function ran, "ret" after
    tc,                 \* the frame of the running translate_chunk call
    parsed_srt,         \* st.session_state["parsed_srt"]
    chunks,             \* st.session_state["chunks"]
    results,            \* st.session_state["results"]
    debugs,             \* st.session_state["debugs"]
    chunk_states,       \* st.session_state["chunk_states"], the status of each
    is_running,         \* st.session_state["is_running"]
    final_srt_content,  \* st.session_state["final_srt_content"]
    pc,                 \* where the script is: idle, loop, translating, finish, retrying
    loop_i,             \* i, the index of the job loop (0-based)
    retry_i,            \* the batch of the retry in progress
    status_msg,         \* the last message written to the page
    script              \* the entry script serving the session: app.py or core.py

fvars == <<fname, fin, fmid, fout, fpc>>

session == <<parsed_srt, chunks, results, debugs, chunk_states, is_running,
             final_srt_content>>

jvars == <<parsed_srt, chunks, results, debugs, chunk_states, is_running,
           final_srt_content, pc, loop_i, retry_i, status_msg, script>>

vars == <<fname, fin, fmid, fout, fpc, tc, parsed_srt, chunks, results, debugs,
          chunk_states, is_running, final_srt_content, pc, loop_i, retry_i, status_msg,
          script>>

----------------------------------------------------------------------------
(* Bounds                                                                  *)

MaxRecs == 3            \* records handed to chunk_text
MaxTextLen == 3         \* characters in one record text handed to chunk_text
MaxChunkSize == 3       \* chunk sizes tried
MaxCleanLen == 5        \* lexemes in a text handed to clean_json_text
MaxBlocks == 2          \* blocks in a subtitle text handed to parse_srt
MaxBatches == 2         \* batches handed to rebuild_srt
MaxBatchLen == 2        \* translated strings in one batch handed to rebuild_srt
MaxK == 3               \* texts handed to one translate_chunk call
MaxItems == 2           \* items in the array of one response
MaxDelta == 15          \* distance of a document length from a threshold of analyze_context

----------------------------------------------------------------------------
(* Python string and list primitives                                       *)

NL == "\n"
SP == " "
FENCE == "FENCE"

Min(a, b) == IF a <= b THEN a ELSE b

\* s[a:b] with 0-based, end-exclusive, already non-negative bounds
Slice(s, a, b) ==
    LET lo == Min(a, Len(s))
        hi == Min(b, Len(s))
    IN  IF hi <= lo THEN <<>> ELSE [k \in 1..(hi - lo) |-> s[lo + k]]

\* str.find(c): 0-based index of the first occurrence, -1 when absent
Find(s, c) ==
    IF \E k \in 1..Len(s) : s[k] = c
    THEN (CHOOSE k \in 1..Len(s) : s[k] = c /\ \A j \in 1..(k - 1) : s[j] # c) - 1
    ELSE -1

\* str.rfind(c): 0-based index of the last occurrence, -1 when absent
RFind(s, c) ==
    IF \E k \in 1..Len(s) : s[k] = c
    THEN (CHOOSE k \in 1..Len(s) : s[k] = c /\ \A j \in (k + 1)..Len(s) : s[j] # c) - 1
    ELSE -1

IsSpace(c) == c \in {SP, NL}

\* str.strip()
Strip(s) ==
    IF \A k \in 1..Len(s) : IsSpace(s[k]) THEN <<>>
    ELSE LET a == CHOOSE k \in 1..Len(s) :
                      ~IsSpace(s[k]) /\ \A j \in 1..(k - 1) : IsSpace(s[j])
             b == CHOOSE k \in 1..Len(s) :
                      ~IsSpace(s[k]) /\ \A j \in (k + 1)..Len(s) : IsSpace(s[j])
         IN  Slice(s, a - 1, b)

\* text.split("\n", 1)[-1]
AfterFirstNL(s) ==
    IF Find(s, NL) = -1 THEN s ELSE Slice(s, Find(s, NL) + 1, Len(s))

\* text.rsplit("\n", 1)[0]
BeforeLastNL(s) ==
    IF RFind(s, NL) = -1 THEN s ELSE Slice(s, 0, RFind(s, NL))

RECURSIVE Flatten(_)
\* [t for chunk in chunks for t in chunk]
Flatten(ss) == IF ss = <<>> THEN <<>> ELSE Head(ss) \o Flatten(Tail(ss))

RECURSIVE Join(_, _)
\* sep.join(parts)
Join(sep, parts) ==
    IF parts = <<>> THEN <<>>
    ELSE IF Len(parts) = 1 THEN parts[1]
    ELSE parts[1] \o sep \o Join(sep, Tail(parts))

\* all sequences over S of length at most n
SeqsUpTo(S, n) == UNION {[1..k -> S] : k \in 0..n}

----------------------------------------------------------------------------
(* chunk_text                                                              *)

RECURSIVE chunk_loop(_, _, _, _, _, _)
\* the for loop of chunk_text from item k on, then the trailing flush
chunk_loop(parsed_data, chunk_size, k, chunks_out, current_chunk, current_length) ==
    IF k > Len(parsed_data)
    THEN IF current_chunk # <<>> THEN Append(chunks_out, current_chunk) ELSE chunks_out
    ELSE LET item == parsed_data[k]
             text_len == Len(item.text)
             over == current_length + text_len > chunk_size
         IN  chunk_loop(parsed_data, chunk_size, k + 1,
                        IF over THEN Append(chunks_out, current_chunk) ELSE chunks_out,
                        Append(IF over THEN <<>> ELSE current_chunk, item),
                        (IF over THEN 0 ELSE current_length) + text_len)

RECURSIVE chunk_loop_ge(_, _, _, _, _, _)
chunk_loop_ge(parsed_data, chunk_size, k, chunks_out, current_chunk, current_length) ==
    IF k > Len(parsed_data)
    THEN IF current_chunk # <<>> THEN Append(chunks_out, current_chunk) ELSE chunks_out
    ELSE LET item == parsed_data[k]
             text_len == Len(item.text)
             over == current_length + text_len >= chunk_size
         IN  chunk_loop_ge(parsed_data, chunk_size, k + 1,
                           IF over THEN Append(chunks_out, current_chunk) ELSE chunks_out,
                           Append(IF over THEN <<>> ELSE current_chunk, item),
                           (IF over THEN 0 ELSE current_length) + text_len)

chunk_text_ge(parsed_data, chunk_size) ==
    chunk_loop_ge(parsed_data, chunk_size, 1, <<>>, <<>>, 0)

chunk_text_noflush(parsed_data, chunk_size) ==
    LET all == chunk_loop(parsed_data, chunk_size, 1, <<>>, <<>>, 0)
    IN  IF all = <<>> THEN <<>> ELSE SubSeq(all, 1, Len(all) - 1)

chunk_text(parsed_data, chunk_size) ==
    chunk_loop(parsed_data, chunk_size, 1, <<>>, <<>>, 0)

----------------------------------------------------------------------------
(* clean_json_text                                                         *)

clean_json_text_exclusive(text) ==
    LET start_idx == Find(text, "{")
        end_idx == RFind(text, "}")
    IN  IF start_idx # -1 /\ end_idx # -1
        THEN Slice(text, start_idx + 1, end_idx)
        ELSE Strip(text)

clean_json_text(text) ==
    LET start_idx == Find(text, "{")
        end_idx == RFind(text, "}")
        stripped == Strip(text)
    IN  IF start_idx # -1 /\ end_idx # -1
        THEN Slice(text, start_idx, end_idx + 1)
        ELSE IF Len(stripped) > 0 /\ stripped[1] = FENCE
             THEN Strip(BeforeLastNL(AfterFirstNL(stripped)))
             ELSE stripped

----------------------------------------------------------------------------
(* rebuild_srt                                                             *)

RECURSIVE rebuild_blocks(_, _, _, _)
\* the for loop of rebuild_srt: blocks i..limit (1-based)
rebuild_blocks(original_data, flat_translations, i, limit) ==
    IF i > limit THEN <<>>
    ELSE LET origin == original_data[i]
             trans == flat_translations[i]
             block == origin.index \o <<NL>> \o origin.time \o <<NL>> \o trans \o <<NL>>
         IN  <<block>> \o rebuild_blocks(original_data, flat_translations, i + 1, limit)

rebuild_srt_nojoin(original_data, chunks_translated) ==
    LET flat_translations == Flatten(chunks_translated)
        limit == Min(Len(original_data), Len(flat_translations))
    IN  Join(<<>>, rebuild_blocks(original_data, flat_translations, 1, limit))

rebuild_srt(original_data, chunks_translated) ==
    LET flat_translations == Flatten(chunks_translated)
        limit == Min(Len(original_data), Len(flat_translations))
    IN  Join(<<NL>>, rebuild_blocks(original_data, flat_translations, 1, limit))

----------------------------------------------------------------------------
(* parse_srt: the regular expression                                       *)
(*   (\d+)\s*\n(TIME)\s*\n((?:.|\n)*?)(?=\n\d+\s*\n|\Z)                    *)
(* matched as re.findall does: leftmost start, greedy \d+ and \s*, lazy    *)
(* text, scan resumed at the end of the previous match.                    *)

Digits == {"0", "1", "2", "3", "4", "5", "6", "7", "8", "9"}

\* lexemes that stand for a string matching
\* \d{2}:\d{2}:\d{2},\d{3}\s*-->\s*\d{2}:\d{2}:\d{2},\d{3}
TimeRanges == {"T1", "T2"}

AllDigits(c, a, b) == \A k \in a..(b - 1) : c[k] \in Digits

AllSpace(c, a, b) == \A k \in a..(b - 1) : IsSpace(c[k])

\* the ways (\d+)\s*\n(TIME)\s*\n matches from position s: <<e, w, v>> with
\* digits c[s..e-1], newline at w, time range at w+1, newline at v
srt_header(c, s) ==
    IF c[s] \notin Digits THEN {}
    ELSE UNION {UNION {{<<e, w, v>> :
                    v \in {y \in (w + 2)..Len(c) : AllSpace(c, w + 2, y) /\ c[y] = NL}} :
                w \in {y \in e..(Len(c) - 1) :
                          AllSpace(c, e, y) /\ c[y] = NL /\ c[y + 1] \in TimeRanges}} :
            e \in {y \in (s + 1)..Len(c) : AllDigits(c, s, y)}}

\* the greedy quantifiers take the longest run first
srt_header_first(c, s) ==
    CHOOSE hd \in srt_header(c, s) : \A o \in srt_header(c, s) :
        \/ o[1] < hd[1]
        \/ o[1] = hd[1] /\ o[2] < hd[2]
        \/ o[1] = hd[1] /\ o[2] = hd[2] /\ o[3] <= hd[3]

\* the lookahead (?=\n\d+\s*\n|\Z) at position u
srt_lookahead_eof(c, u) == u = Len(c) + 1

srt_lookahead(c, u) ==
    \/ /\ u <= Len(c) /\ c[u] = NL
       /\ \E e \in (u + 2)..Len(c) : \E w \in e..Len(c) :
              AllDigits(c, u + 1, e) /\ AllSpace(c, e, w) /\ c[w] = NL
    \/ u = Len(c) + 1

\* the lazy text ends at the first position where the lookahead holds
srt_text_end(c, t) ==
    CHOOSE u \in t..(Len(c) + 1) :
        srt_lookahead(c, u) /\ \A j \in t..(u - 1) : ~srt_lookahead(c, j)

RECURSIVE srt_findall(_, _)
\* pattern.findall(content) from position pos on, with the loop that builds
\* parsed_data from the matches
srt_findall(c, pos) ==
    IF \A s \in pos..Len(c) : srt_header(c, s) = {}
    THEN <<>>
    ELSE LET s == CHOOSE k \in pos..Len(c) :
                      srt_header(c, k) # {} /\ \A j \in pos..(k - 1) : srt_header(c, j) = {}
             hd == srt_header_first(c, s)
             t == hd[3] + 1
             u == srt_text_end(c, t)
         IN  <<[index |-> Slice(c, s - 1, hd[1] - 1),
                time |-> <<c[hd[2] + 1]>>,
                text |-> Strip(Slice(c, t - 1, u - 1))]>>
             \o srt_findall(c, u)

parse_srt(content) == srt_findall(content, 1)

----------------------------------------------------------------------------
(* translate_chunk: values of the response                                 *)

\* the id of an item: an integer n, a string, null, or no "id" key
IdInt(n) == [t |-> "int", n |-> n]
IdStr == [t |-> "str", n |-> 0]
IdNull == [t |-> "null", n |-> 0]
IdAbsent == [t |-> "absent", n |-> 0]

\* the text of an item: a string, or no "text" key
TextOf(str) == [has |-> TRUE, s |-> str]
TextAbsent == [has |-> FALSE, s |-> <<>>]

\* a member of the item array: an object with id and text, or a value that
\* is not an object
Item(id, text) == [isdict |-> TRUE, id |-> id, text |-> text]
NotAnObject == [isdict |-> FALSE, id |-> IdAbsent, text |-> TextAbsent]

\* a value of the top-level object: a list of items, or a value that is not
\* a list
ListValue(items) == [islist |-> TRUE, items |-> items]
ScalarValue == [islist |-> FALSE, items |-> <<>>]

Member(key, val) == [key |-> key, val |-> val]

\* what the generation call does: raises, or returns the text raw, in which
\* the lexeme "J" stands for the members of a JSON object, given by body in
\* their order
Raises == [raises |-> TRUE, raw |-> <<>>, body |-> <<>>]
Returns(raw, body) == [raises |-> FALSE, raw |-> raw, body |-> body]

----------------------------------------------------------------------------
(* translate_chunk: the steps inside the try block                         *)

max_retries_two == 1 + 1

max_retries == 1

\* json.loads(cleaned_text): an object, another JSON value, or JSONDecodeError
json_loads(cleaned_text, body) ==
    IF cleaned_text = <<"{", "J", "}">> /\ body # <<>>
        THEN [err |-> "none", kind |-> "object", members |-> body]
    ELSE IF cleaned_text = <<"{", "}">>
        THEN [err |-> "none", kind |-> "object", members |-> <<>>]
    ELSE IF cleaned_text = <<"[", "]">>
        THEN [err |-> "none", kind |-> "array", members |-> <<>>]
    ELSE IF cleaned_text = <<"0">>
        THEN [err |-> "none", kind |-> "number", members |-> <<>>]
    ELSE [err |-> "JSONDecodeError", kind |-> "none", members |-> <<>>]

HasKey(members, key) == \E k \in 1..Len(members) : members[k].key = key

ValueAt(members, key) ==
    members[CHOOSE k \in 1..Len(members) : members[k].key = key].val

select_items_first_value(result_json) ==
    IF result_json.kind = "number"
        THEN [err |-> "TypeError", val |-> ScalarValue]
    ELSE IF result_json.kind = "array"
        THEN [err |-> "AttributeError", val |-> ScalarValue]
    ELSE IF result_json.members = <<>>
        THEN [err |-> "IndexError", val |-> ScalarValue]
    ELSE [err |-> "none", val |-> result_json.members[1].val]

\* the if/else that picks the item array out of result_json
select_items(result_json) ==
    IF result_json.kind = "number"
        THEN [err |-> "TypeError", val |-> ScalarValue]
    ELSE IF result_json.kind = "array"
        THEN [err |-> "AttributeError", val |-> ScalarValue]
    ELSE IF HasKey(result_json.members, "translated_items")
        THEN [err |-> "none", val |-> ValueAt(result_json.members, "translated_items")]
    ELSE IF result_json.members = <<>>
        THEN [err |-> "IndexError", val |-> ScalarValue]
    ELSE [err |-> "none", val |-> result_json.members[1].val]

\* x.get("id", -1)
sort_key(x) == IF x.id.t = "absent" THEN IdInt(-1) ELSE x.id

\* comparing two sort keys raises unless both are integers or both strings
Comparable(a, b) == a.t = b.t /\ a.t \in {"int", "str"}

\* type(key).__name__
TypeName(a) == CASE a.t = "int" -> "int" [] a.t = "str" -> "str" [] OTHER -> "NoneType"

\* str(e) of the TypeError of a comparison "a < b"
LessNotSupported(a, b) ==
    "'<' not supported between instances of '" \o TypeName(a) \o "' and '"
        \o TypeName(b) \o "'"

\* the exception list.sort raises on keys that are not mutually comparable:
\* the keys are taken in list order and each is compared with keys before
\* it, so the first key that cannot be compared with its predecessors is the
\* left operand of the comparison that raises
sort_TypeError(items) ==
    LET k == CHOOSE k \in 2..Len(items) :
                 /\ \E j \in 1..(k - 1) : ~Comparable(sort_key(items[j]), sort_key(items[k]))
                 /\ \A m \in 2..(k - 1) : \A j \in 1..(m - 1) :
                        Comparable(sort_key(items[j]), sort_key(items[m]))
    IN  LessNotSupported(sort_key(items[k]), sort_key(items[k - 1]))

KeyLess(a, b) == a.t = "int" /\ b.t = "int" /\ a.n < b.n

RECURSIVE stable_sort_ties_reversed(_)
stable_sort_ties_reversed(items) ==
    IF Len(items) <= 1 THEN items
    ELSE LET init == stable_sort_ties_reversed(SubSeq(items, 1, Len(items) - 1))
             x == items[Len(items)]
             cut == CHOOSE k \in 0..Len(init) :
                        /\ \A j \in (k + 1)..Len(init) : ~KeyLess(sort_key(init[j]), sort_key(x))
                        /\ k = 0 \/ KeyLess(sort_key(init[k]), sort_key(x))
         IN  SubSeq(init, 1, cut) \o <<x>> \o SubSeq(init, cut + 1, Len(init))

RECURSIVE stable_sort(_)
\* list.sort(key=...) on mutually comparable keys: stable, ascending
stable_sort(items) ==
    IF Len(items) <= 1 THEN items
    ELSE LET init == stable_sort(SubSeq(items, 1, Len(items) - 1))
             x == items[Len(items)]
             \* x goes after every element that is not greater than it
             cut == CHOOSE k \in 0..Len(init) :
                        /\ \A j \in (k + 1)..Len(init) : KeyLess(sort_key(x), sort_key(init[j]))
                        /\ k = 0 \/ ~KeyLess(sort_key(x), sort_key(init[k]))
         IN  SubSeq(init, 1, cut) \o <<x>> \o SubSeq(init, cut + 1, Len(init))

\* items.sort(key=lambda x: x.get("id", -1))
sort_items(val) ==
    IF ~val.islist
        THEN [err |-> "AttributeError", items |-> <<>>]
    ELSE IF \E k \in 1..Len(val.items) : ~val.items[k].isdict
        THEN [err |-> "AttributeError", items |-> <<>>]
    ELSE IF \E j, k \in 1..Len(val.items) :
                j < k /\ ~Comparable(sort_key(val.items[j]), sort_key(val.items[k]))
        THEN [err |-> sort_TypeError(val.items), items |-> <<>>]
    ELSE [err |-> "none", items |-> stable_sort(val.items)]

\* item.get("id") == i
IdIs(item, i) == item.id.t = "int" /\ item.id.n = i

\* item.get("text", "")
GetText(item) == IF item.text.has THEN item.text.s ELSE <<>>

RECURSIVE reconcile_drop(_, _, _)
reconcile_drop(text_list, items, i) ==
    IF i >= Len(text_list) THEN <<>>
    ELSE (IF \E k \in 1..Len(items) : IdIs(items[k], i)
          THEN <<GetText(items[CHOOSE k \in 1..Len(items) :
                     IdIs(items[k], i) /\ \A j \in 1..(k - 1) : ~IdIs(items[j], i)])>>
          ELSE <<>>)
         \o reconcile_drop(text_list, items, i + 1)

RECURSIVE reconcile_positional(_, _, _)
reconcile_positional(text_list, items, i) ==
    IF i >= Len(text_list) THEN <<>>
    ELSE <<IF i + 1 <= Len(items) THEN GetText(items[i + 1]) ELSE text_list[i + 1]>>
         \o reconcile_positional(text_list, items, i + 1)

RECURSIVE reconcile(_, _, _)
\* the loop "for i in range(len(text_list))" from i on: the first item whose
\* id is i gives the text, the original text when there is none
reconcile(text_list, items, i) ==
    IF i >= Len(text_list) THEN <<>>
    ELSE (IF \E k \in 1..Len(items) : IdIs(items[k], i)
          THEN <<GetText(items[CHOOSE k \in 1..Len(items) :
                     IdIs(items[k], i) /\ \A j \in 1..(k - 1) : ~IdIs(items[j], i)])>>
          ELSE <<text_list[i + 1]>>)
         \o reconcile(text_list, items, i + 1)

try_block_in_response_order(text_list, raw_text, body) ==
    LET result_json == json_loads(clean_json_text(raw_text), body)
        sel == select_items(result_json)
        sorted == sort_items(sel.val)
        translated_list == reconcile_positional(text_list, sel.val.items, 0)
        got == result_json.err = "none" /\ sel.err = "none" /\ sel.val.islist
        key == IF HasKey(result_json.members, "translated_items")
               THEN "translated_items" ELSE result_json.members[1].key
        none == [got |-> FALSE, list |-> <<>>, key |-> ""]
    IN  IF result_json.err # "none"
            THEN [err |-> result_json.err, out |-> <<>>, items |-> none]
        ELSE IF sel.err # "none"
            THEN [err |-> sel.err, out |-> <<>>, items |-> none]
        ELSE IF sorted.err # "none"
            THEN [err |-> sorted.err, out |-> <<>>,
                  items |-> [got |-> got, list |-> sel.val.items, key |-> key]]
        ELSE [err |-> "none", out |-> translated_list,
              items |-> [got |-> got, list |-> sel.val.items, key |-> key]]

\* the body of the try block on the text raw_text: err is the exception
\* it raises ("none" when it reaches the return), out the translated list
try_block(text_list, raw_text, body) ==
    LET result_json == json_loads(clean_json_text(raw_text), body)
        sel == select_items(result_json)
        sorted == sort_items(sel.val)
        translated_list == reconcile(text_list, sorted.items, 0)
        got == result_json.err = "none" /\ sel.err = "none" /\ sel.val.islist
        key == IF HasKey(result_json.members, "translated_items")
               THEN "translated_items" ELSE result_json.members[1].key
        none == [got |-> FALSE, list |-> <<>>, key |-> ""]
    IN  IF result_json.err # "none"
            THEN [err |-> result_json.err, out |-> <<>>, items |-> none]
        ELSE IF sel.err # "none"
            THEN [err |-> sel.err, out |-> <<>>, items |-> none]
        ELSE IF sorted.err # "none"
            THEN [err |-> sorted.err, out |-> <<>>,
                  items |-> [got |-> got, list |-> sel.val.items, key |-> key]]
        ELSE IF Len(translated_list) # Len(text_list)
            THEN [err |-> "ValueError", out |-> <<>>,
                  items |-> [got |-> got, list |-> sel.val.items, key |-> key]]
        ELSE [err |-> "none", out |-> translated_list,
              items |-> [got |-> got, list |-> sel.val.items, key |-> key]]

exhausted_return_empty(text_list) == <<>>

\* "return text_list, debug_info" once the retries are used up
exhausted_return(text_list) == text_list

except_generate_only(kind) == kind = "generate"

\* "except Exception as e" catches every exception the try block raises
except_Exception(kind) == TRUE

----------------------------------------------------------------------------
(* translate_chunk: the frame and its steps                                *)

NoItems == [got |-> FALSE, list |-> <<>>, key |-> ""]

\* no call in progress
TcIdle ==
    [pc |-> "idle", text_list |-> <<>>, attempt |-> 0,
     debug_info |-> [input_json |-> <<>>, raw_response |-> <<>>,
                     status |-> "Unknown", attempts |-> 0],
     ret |-> <<>>, calls |-> 0, failed |-> 0, items |-> NoItems]

\* the frame at the head of the attempt loop: debug_info as initialised,
\* input_json holding the texts with their positions as ids
TcEntry(text_list) ==
    [pc |-> "call", text_list |-> text_list, attempt |-> 0,
     debug_info |-> [input_json |-> [k \in 1..Len(text_list) |->
                                        [id |-> k - 1, text |-> text_list[k]]],
                     raw_response |-> <<>>, status |-> "Unknown", attempts |-> 0],
     ret |-> <<>>, calls |-> 0, failed |-> 0, items |-> NoItems]

TcAttempt_keeps_first_status(r) ==
    /\ tc.pc = "call"
    /\ LET tb == try_block(tc.text_list, r.raw, r.body)
           err == IF r.raises THEN "generate" ELSE tb.err
           dbg0 == [tc.debug_info EXCEPT !.attempts = tc.attempt + 1,
                                         !.raw_response = IF r.raises THEN @ ELSE r.raw]
           base == [tc EXCEPT !.calls = @ + 1,
                              !.items = IF r.raises THEN NoItems ELSE tb.items]
       IN  IF err = "none"
           THEN tc' = [base EXCEPT !.debug_info =
                                       [dbg0 EXCEPT !.status = IF @ = "Unknown" THEN "Success" ELSE @],
                                   !.ret = tb.out,
                                   !.pc = "returned"]
           ELSE IF ~except_Exception(err)
           THEN tc' = [base EXCEPT !.debug_info = dbg0, !.failed = @ + 1, !.pc = "raised"]
           ELSE IF tc.attempt < max_retries
           THEN tc' = [base EXCEPT !.debug_info = [dbg0 EXCEPT !.status = "Error: " \o err],
                                   !.failed = @ + 1,
                                   !.items = NoItems,
                                   !.pc = "sleep"]
           ELSE tc' = [base EXCEPT !.debug_info = [dbg0 EXCEPT !.status = "Error: " \o err],
                                   !.failed = @ + 1,
                                   !.ret = exhausted_return(tc.text_list),
                                   !.pc = "returned"]

\* one pass of the attempt loop: the generation call, the try block, and on
\* an exception the except block up to its sleep or return
TcAttempt(r) ==
    /\ tc.pc = "call"
    /\ LET tb == try_block(tc.text_list, r.raw, r.body)
           err == IF r.raises THEN "generate" ELSE tb.err
           dbg0 == [tc.debug_info EXCEPT !.attempts = tc.attempt + 1,
                                         !.raw_response = IF r.raises THEN @ ELSE r.raw]
           base == [tc EXCEPT !.calls = @ + 1,
                              !.items = IF r.raises THEN NoItems ELSE tb.items]
       IN  IF err = "none"
           THEN tc' = [base EXCEPT !.debug_info = [dbg0 EXCEPT !.status = "Success"],
                                   !.ret = tb.out,
                                   !.pc = "returned"]
           ELSE IF ~except_Exception(err)
           THEN tc' = [base EXCEPT !.debug_info = dbg0, !.failed = @ + 1, !.pc = "raised"]
           ELSE IF tc.attempt < max_retries
           THEN tc' = [base EXCEPT !.debug_info = [dbg0 EXCEPT !.status = "Error: " \o err],
                                   !.failed = @ + 1,
                                   !.items = NoItems,
                                   !.pc = "sleep"]
           ELSE tc' = [base EXCEPT !.debug_info = [dbg0 EXCEPT !.status = "Error: " \o err],
                                   !.failed = @ + 1,
                                   !.ret = exhausted_return(tc.text_list),
                                   !.pc = "returned"]

TcBackoff_same_attempt ==
    /\ tc.pc = "sleep"
    /\ tc' = [tc EXCEPT !.pc = "call"]

\* time.sleep(1); continue
TcBackoff ==
    /\ tc.pc = "sleep"
    /\ tc' = [tc EXCEPT !.attempt = @ + 1, !.pc = "call"]

----------------------------------------------------------------------------
(* The session state                                                       *)

\* None in results and in debugs
NoResult == [none |-> TRUE, texts |-> <<>>]
NoDebug == [none |-> TRUE, info |-> TcIdle.debug_info]

\* the "State Init" block: every key at its default
SessionDefaults ==
    /\ parsed_srt = <<>>
    /\ chunks = <<>>
    /\ results = <<>>
    /\ debugs = <<>>
    /\ chunk_states = <<>>
    /\ is_running = FALSE
    /\ final_srt_content = <<>>
    /\ pc = "idle"
    /\ loop_i = 0
    /\ retry_i = 0
    /\ status_msg = ""

\* a session served by src/app.py
SessionInit == SessionDefaults /\ script = "app.py"

----------------------------------------------------------------------------
(* Harness for translate_chunk: any texts, any behaviour of the call       *)

\* the texts of a call: the first K of three different texts
InputTexts == <<<<"a">>, <<"b">>, <<"c">>, <<"d">>, <<"e">>>>

TextLists == {SubSeq(InputTexts, 1, K) : K \in 0..MaxK}

ItemIds(K) == {IdAbsent, IdNull, IdStr} \cup {IdInt(n) : n \in 0..K}

ItemTexts == {TextAbsent, TextOf(<<"X">>), TextOf(<<"Y">>)}

Items(K) == {NotAnObject} \cup {Item(id, tx) : id \in ItemIds(K), tx \in ItemTexts}

\* the spec's decorated answer: prose, a fenced block holding the object, prose
Decorated == <<"p", NL, FENCE, NL, "{", "J", "}", NL, FENCE, NL, "p">>

\* an object whose translated_items is not a list
NotAList == Returns(<<"{", "J", "}">>, <<Member("translated_items", ScalarValue)>>)

\* answers that hold no JSON object with members
NoObjectTexts ==
    {<<>>, <<"p">>, <<"}", "{">>, <<"{", "}">>, <<"0">>,
     <<FENCE, NL, "[", "]", NL, FENCE>>, <<"{", "J", "}", "p", "{", "}">>}

\* the ways an answer carries the item array its
ObjectShapes == {"decorated", "other_key", "second_key", "other_second"}

Answer(shape, its) ==
    CASE shape = "plain" ->
            Returns(<<"{", "J", "}">>, <<Member("translated_items", ListValue(its))>>)
      [] shape = "decorated" ->
            Returns(Decorated, <<Member("translated_items", ListValue(its))>>)
      [] shape = "other_key" ->
            Returns(<<"{", "J", "}">>, <<Member("result", ListValue(its))>>)
      [] shape = "second_key" ->
            Returns(<<"{", "J", "}">>,
                    <<Member("note", ScalarValue), Member("translated_items", ListValue(its))>>)
      [] shape = "other_second" ->
            Returns(<<"{", "J", "}">>,
                    <<Member("note", ScalarValue), Member("result", ListValue(its))>>)

InitTranslate ==
    /\ fname = "translate_chunk"
    /\ fin = <<>>
    /\ fmid = <<>>
    /\ fout = <<>>
    /\ fpc = "call"
    /\ tc \in {TcEntry(tl) : tl \in TextLists}
    /\ SessionInit

\* the generation call raises
GenerateRaises == TcAttempt(Raises) /\ UNCHANGED <<fvars, jvars>>

\* the generation call returns text that carries no item array
GenerateNoArray ==
    \E r \in {Returns(raw, <<>>) : raw \in NoObjectTexts} \cup {NotAList} :
        TcAttempt(r) /\ UNCHANGED <<fvars, jvars>>

\* the generation call returns the object {"translated_items": [...]} with
\* some array of at most MaxItems items
GenerateItems ==
    \E n \in 0..MaxItems : \E its \in [1..n -> Items(Len(tc.text_list))] :
        TcAttempt(Answer("plain", its)) /\ UNCHANGED <<fvars, jvars>>

\* the generation call returns an item array in another shape: decorated
\* with prose and a fence, under another key, behind another member
GenerateShaped ==
    \E n \in 0..1 : \E its \in [1..n -> Items(Len(tc.text_list))] :
        \E shape \in ObjectShapes : TcAttempt(Answer(shape, its)) /\ UNCHANGED <<fvars, jvars>>

Generate == GenerateRaises \/ GenerateNoArray \/ GenerateItems \/ GenerateShaped

Backoff == TcBackoff /\ UNCHANGED <<fvars, jvars>>

NextTranslate == Generate \/ Backoff

SpecTranslate == InitTranslate /\ [][NextTranslate]_vars

----------------------------------------------------------------------------
(* Harness for chunk_text                                                  *)

Xs(n) == [k \in 1..n |-> "x"]

\* record k of a test sequence: index k, a fixed time range, n characters of text
Rec(k, n) == [index |-> <<ToString(k)>>, time |-> <<"T1">>, text |-> Xs(n)]

ChunkInputs ==
    {[parsed_data |-> [k \in 1..Len(lens) |-> Rec(k, lens[k])], chunk_size |-> cs] :
        lens \in SeqsUpTo(0..MaxTextLen, MaxRecs), cs \in 1..MaxChunkSize}

InitChunk ==
    /\ fname = "chunk_text"
    /\ fin \in ChunkInputs
    /\ fmid = <<>>
    /\ fout = <<>>
    /\ fpc = "call"
    /\ tc = TcIdle
    /\ SessionInit

CallChunkText ==
    /\ fname = "chunk_text"
    /\ fpc = "call"
    /\ fout' = chunk_text(fin.parsed_data, fin.chunk_size)
    /\ fpc' = "ret"
    /\ UNCHANGED <<fname, fin, fmid, tc, jvars>>

NextChunk == CallChunkText

SpecChunk == InitChunk /\ [][NextChunk]_vars

----------------------------------------------------------------------------
(* Harness for clean_json_text                                             *)

CleanAlphabet == {"{", "}", FENCE, NL, SP, "p"}

InitClean ==
    /\ fname = "clean_json_text"
    /\ fin \in SeqsUpTo(CleanAlphabet, MaxCleanLen)
    /\ fmid = <<>>
    /\ fout = <<>>
    /\ fpc = "call"
    /\ tc = TcIdle
    /\ SessionInit

CallCleanJsonText ==
    /\ fname = "clean_json_text"
    /\ fpc = "call"
    /\ fout' = clean_json_text(fin)
    /\ fpc' = "ret"
    /\ UNCHANGED <<fname, fin, fmid, tc, jvars>>

NextClean == CallCleanJsonText

SpecClean == InitClean /\ [][NextClean]_vars

----------------------------------------------------------------------------
(* Harness for parse_srt and the rebuild of its own records                *)

\* text bodies of a block: free text, with inner blank lines, digits inside a
\* line, surrounding blanks; then the shapes the grammar excludes: no text,
\* and a line holding only an integer
SrtTexts ==
    {<<"x">>, <<"x", "y">>, <<"x", NL, "y">>, <<"x", NL, NL, "y">>, <<"7", "x">>,
     <<SP, "x", SP>>, <<"x", SP, "7">>,
     <<>>, <<"x", NL, "7", NL, "y">>, <<"7", NL, "x">>}

SrtHeads == {[index |-> <<"1">>, time |-> "T1"], [index |-> <<"1", "2">>, time |-> "T2"]}

SrtBlocks == {[index |-> h.index, time |-> h.time, text |-> t] : h \in SrtHeads, t \in SrtTexts}

\* some line of t holds only an integer (digits, then blanks)
HasIntegerLine(t) ==
    \E a \in 1..Len(t) : \E b \in a..Len(t) : \E e \in (b + 1)..(Len(t) + 1) :
        /\ a = 1 \/ t[a - 1] = NL
        /\ e = Len(t) + 1 \/ t[e] = NL
        /\ \A k \in a..b : t[k] \in Digits
        /\ \A k \in (b + 1)..(e - 1) : t[k] = SP

\* one or more lines of free text, none of them an index line
FreeText(t) == Strip(t) # <<>> /\ ~HasIntegerLine(t)

RECURSIVE srt_render(_, _, _)
\* the subtitle text of the blocks: index line, time line, text, separator
srt_render(blocks, sep, trailer) ==
    IF blocks = <<>> THEN <<>>
    ELSE LET b == Head(blocks)
         IN  b.index \o <<NL, b.time, NL>> \o b.text
             \o (IF Len(blocks) = 1 THEN trailer ELSE sep)
             \o srt_render(Tail(blocks), sep, trailer)

SrtInputs ==
    {[blocks |-> bs, content |-> srt_render(bs, sep, tr)] :
        bs \in SeqsUpTo(SrtBlocks, MaxBlocks),
        sep \in {<<NL>>, <<NL, NL>>},
        tr \in {<<>>, <<NL>>, <<NL, NL>>}}

\* iterating a str yields its characters as one-character strings
Chars(str) == [k \in 1..Len(str) |-> <<str[k]>>]

TextsOf(records) == [k \in 1..Len(records) |-> records[k].text]

InitSrt ==
    /\ fname = "parse_srt"
    /\ fin \in SrtInputs
    /\ fmid = <<>>
    /\ fout = <<>>
    /\ fpc = "call"
    /\ tc = TcIdle
    /\ SessionInit

CallParseSrt ==
    /\ fname = "parse_srt"
    /\ fpc = "call"
    /\ fmid' = parse_srt(fin.content)
    /\ fpc' = "parsed"
    /\ UNCHANGED <<fname, fin, fout, tc, jvars>>

\* rebuild_srt(records, [r.text for r in records]): the second argument is a
\* list of str, so the flattening comprehension iterates each str
CallRebuildTexts ==
    /\ fname = "parse_srt"
    /\ fpc = "parsed"
    /\ fout' = rebuild_srt(fmid, [k \in 1..Len(fmid) |-> Chars(fmid[k].text)])
    /\ fpc' = "rebuilt_texts"
    /\ UNCHANGED <<fname, fin, fmid, tc, jvars>>

\* rebuild_srt(records, [[r.text for r in records]]): the texts as one batch
CallRebuildBatch ==
    /\ fname = "parse_srt"
    /\ fpc = "parsed"
    /\ fout' = rebuild_srt(fmid, <<TextsOf(fmid)>>)
    /\ fpc' = "rebuilt_batch"
    /\ UNCHANGED <<fname, fin, fmid, tc, jvars>>

NextSrt == CallParseSrt \/ CallRebuildTexts \/ CallRebuildBatch

SpecSrt == InitSrt /\ [][NextSrt]_vars

----------------------------------------------------------------------------
(* Harness for rebuild_srt                                                 *)

RebuildStrings == {<<"A">>, <<"B", "C">>, <<>>}

RebuildInputs ==
    {[original_data |-> [k \in 1..n |-> Rec(k, 1)], chunks_translated |-> ct] :
        n \in 0..MaxRecs,
        ct \in SeqsUpTo(SeqsUpTo(RebuildStrings, MaxBatchLen), MaxBatches)}

InitRebuild ==
    /\ fname = "rebuild_srt"
    /\ fin \in RebuildInputs
    /\ fmid = <<>>
    /\ fout = <<>>
    /\ fpc = "call"
    /\ tc = TcIdle
    /\ SessionInit

CallRebuildSrt ==
    /\ fname = "rebuild_srt"
    /\ fpc = "call"
    /\ fout' = rebuild_srt(fin.original_data, fin.chunks_translated)
    /\ fpc' = "ret"
    /\ UNCHANGED <<fname, fin, fmid, tc, jvars>>

NextRebuild == CallRebuildSrt

SpecRebuild == InitRebuild /\ [][NextRebuild]_vars

----------------------------------------------------------------------------
(* analyze_context: the sample of the document                             *)

SampleHead == 3000
LongDocument == 5000
SampleMid == 2000

\* "\n...\n"
SampleSeparator == <<NL, "...", NL>>

sample_text_ge(full_text) ==
    IF Len(full_text) >= LongDocument
    THEN LET mid == Len(full_text) \div 2
         IN  Slice(full_text, 0, SampleHead) \o SampleSeparator
             \o Slice(full_text, mid, mid + SampleMid)
    ELSE Slice(full_text, 0, SampleHead)

\* sample_text = full_text[:3000], and for len(full_text) > 5000
\* sample_text += "\n...\n" + full_text[mid:mid+2000], mid = len(full_text) // 2
sample_text(full_text) ==
    IF Len(full_text) > LongDocument
    THEN LET mid == Len(full_text) \div 2
         IN  Slice(full_text, 0, SampleHead) \o SampleSeparator
             \o Slice(full_text, mid, mid + SampleMid)
    ELSE Slice(full_text, 0, SampleHead)

\* the prompt around the sample, then model.generate_content(prompt): the
\* call raises, or analyze_context returns response.text.strip()
analyze_context(full_text, response) ==
    [prompt |-> <<"Analyze", NL>> \o sample_text(full_text) \o <<NL, "Task">>,
     sample |-> sample_text(full_text),
     raised |-> response.raises,
     guide |-> IF response.raises THEN <<>> ELSE Strip(response.raw)]

\* a document of n characters, each its own lexeme
Document(n) == [k \in 1..n |-> ToString(k)]

\* document lengths: up to MaxDelta, and within MaxDelta of the two thresholds
DocumentLengths ==
    (0..MaxDelta)
    \cup {SampleHead + d : d \in (0 - MaxDelta)..MaxDelta}
    \cup {LongDocument + d : d \in (0 - MaxDelta)..MaxDelta}

GuideResponses == {Raises, Returns(<<SP, "g", NL>>, <<>>)}

InitAnalyze ==
    /\ fname = "analyze_context"
    /\ fin \in {Document(n) : n \in DocumentLengths}
    /\ fmid = <<>>
    /\ fout = <<>>
    /\ fpc = "call"
    /\ tc = TcIdle
    /\ SessionInit

CallAnalyzeContext ==
    /\ fname = "analyze_context"
    /\ fpc = "call"
    /\ \E response \in GuideResponses :
           LET r == analyze_context(fin, response)
           IN  /\ fmid' = r.sample
               /\ fout' = r
    /\ fpc' = "analyzed"
    /\ UNCHANGED <<fname, fin, tc, jvars>>

NextAnalyze == CallAnalyzeContext

SpecAnalyze == InitAnalyze /\ [][NextAnalyze]_vars

----------------------------------------------------------------------------
(* The job loop and the retry of one batch                                 *)

\* safe_results: the stored result of each batch, its original texts where
\* the result is None
safe_results(res, chs) ==
    [b \in 1..Len(res) |-> IF res[b].none THEN TextsOf(chs[b]) ELSE res[b].texts]

\* 'SUCCESS' if debug['status'] == "Success" else 'ERROR'
StatusOf(debug_info) == IF debug_info.status = "Success" THEN "SUCCESS" ELSE "ERROR"

\* "Start Translation Process" on a text that parses: the session is reset
\* for the new job and the loop is entered
StartJob(content, chunk_size) ==
    /\ pc = "idle"
    /\ parse_srt(content) # <<>>
    /\ LET parsed == parse_srt(content)
           chs == chunk_text(parsed, chunk_size)
           total == Len(chs)
       IN  /\ is_running' = TRUE
           /\ parsed_srt' = parsed
           /\ chunks' = chs
           /\ results' = [b \in 1..total |-> NoResult]
           /\ debugs' = [b \in 1..total |-> NoDebug]
           /\ chunk_states' = [b \in 1..total |-> "WAITING"]
    /\ pc' = "loop"
    /\ loop_i' = 0
    /\ status_msg' = "Live Execution Log"
    /\ UNCHANGED <<final_srt_content, retry_i, tc, fvars, script>>

\* "Start Translation Process" on a text with no block: only the error shows
StartJobParseFailed(content) ==
    /\ pc = "idle"
    /\ parse_srt(content) = <<>>
    /\ status_msg' = "Parsing Failed."
    /\ UNCHANGED <<session, pc, loop_i, retry_i, tc, fvars, script>>

\* head of the loop with is_running cleared: break
LoopStopped ==
    /\ pc = "loop"
    /\ loop_i < Len(chunks)
    /\ ~is_running
    /\ status_msg' = "Stopped at Chunk"
    /\ pc' = "finish"
    /\ UNCHANGED <<session, loop_i, retry_i, tc, fvars, script>>

LoopBegin_unchecked ==
    /\ pc = "loop"
    /\ loop_i < Len(chunks)
    /\ chunk_states' = [chunk_states EXCEPT ![loop_i + 1] = "RUNNING"]
    /\ status_msg' = "Processing Chunk"
    /\ tc' = TcEntry(TextsOf(chunks[loop_i + 1]))
    /\ pc' = "translating"
    /\ UNCHANGED <<parsed_srt, chunks, results, debugs, is_running, final_srt_content,
                   loop_i, retry_i, fvars, script>>

\* head of the loop with is_running set: the batch becomes RUNNING and
\* translate_chunk is called on its texts
LoopBegin ==
    /\ pc = "loop"
    /\ loop_i < Len(chunks)
    /\ is_running
    /\ chunk_states' = [chunk_states EXCEPT ![loop_i + 1] = "RUNNING"]
    /\ status_msg' = "Processing Chunk"
    /\ tc' = TcEntry(TextsOf(chunks[loop_i + 1]))
    /\ pc' = "translating"
    /\ UNCHANGED <<parsed_srt, chunks, results, debugs, is_running, final_srt_content,
                   loop_i, retry_i, fvars, script>>

StoreResult_keeps_running ==
    /\ pc = "translating"
    /\ tc.pc = "returned"
    /\ results' = [results EXCEPT ![loop_i + 1] = [none |-> FALSE, texts |-> tc.ret]]
    /\ debugs' = [debugs EXCEPT ![loop_i + 1] = [none |-> FALSE, info |-> tc.debug_info]]
    /\ loop_i' = loop_i + 1
    /\ pc' = "loop"
    /\ tc' = TcIdle
    /\ UNCHANGED <<parsed_srt, chunks, chunk_states, is_running, final_srt_content, retry_i,
                   status_msg, fvars, script>>

StoreResult_in_place ==
    /\ pc = "translating"
    /\ tc.pc = "returned"
    /\ results' = [results EXCEPT ![loop_i + 1] = [none |-> FALSE, texts |-> tc.ret]]
    /\ debugs' = [debugs EXCEPT ![loop_i + 1] = [none |-> FALSE, info |-> tc.debug_info]]
    /\ chunk_states' = [chunk_states EXCEPT ![loop_i + 1] = StatusOf(tc.debug_info)]
    /\ chunks' = [chunks EXCEPT ![loop_i + 1] =
                      [k \in 1..Len(@) |-> [@[k] EXCEPT !.text = tc.ret[k]]]]
    /\ loop_i' = loop_i + 1
    /\ pc' = "loop"
    /\ tc' = TcIdle
    /\ UNCHANGED <<parsed_srt, is_running, final_srt_content, retry_i,
                   status_msg, fvars, script>>

StoreResult_fatal ==
    /\ pc = "translating"
    /\ tc.pc = "returned"
    /\ results' = [results EXCEPT ![loop_i + 1] = [none |-> FALSE, texts |-> tc.ret]]
    /\ debugs' = [debugs EXCEPT ![loop_i + 1] = [none |-> FALSE, info |-> tc.debug_info]]
    /\ chunk_states' = [chunk_states EXCEPT ![loop_i + 1] = StatusOf(tc.debug_info)]
    /\ loop_i' = loop_i + 1
    /\ pc' = IF tc.debug_info.status = "Success" THEN "loop" ELSE "finish"
    /\ tc' = TcIdle
    /\ UNCHANGED <<parsed_srt, chunks, is_running, final_srt_content, retry_i,
                   status_msg, fvars, script>>

\* translate_chunk returned: result, diagnostics and status are stored and
\* the loop moves on
StoreResult ==
    /\ pc = "translating"
    /\ tc.pc = "returned"
    /\ results' = [results EXCEPT ![loop_i + 1] = [none |-> FALSE, texts |-> tc.ret]]
    /\ debugs' = [debugs EXCEPT ![loop_i + 1] = [none |-> FALSE, info |-> tc.debug_info]]
    /\ chunk_states' = [chunk_states EXCEPT ![loop_i + 1] = StatusOf(tc.debug_info)]
    /\ loop_i' = loop_i + 1
    /\ pc' = "loop"
    /\ tc' = TcIdle
    /\ UNCHANGED <<parsed_srt, chunks, is_running, final_srt_content, retry_i,
                   status_msg, fvars, script>>

\* the loop ran out of batches
LoopExhausted ==
    /\ pc = "loop"
    /\ loop_i >= Len(chunks)
    /\ pc' = "finish"
    /\ UNCHANGED <<session, loop_i, retry_i, status_msg, tc, fvars, script>>

\* after the loop: the final text is rebuilt from safe_results and
\* is_running is cleared
Finish ==
    /\ pc = "finish"
    /\ final_srt_content' = rebuild_srt(parsed_srt, safe_results(results, chunks))
    /\ is_running' = FALSE
    /\ status_msg' = "Complete!"
    /\ pc' = "idle"
    /\ UNCHANGED <<parsed_srt, chunks, results, debugs, chunk_states, loop_i, retry_i,
                   tc, fvars, script>>

\* the STOP PROCESS button
Stop ==
    /\ is_running
    /\ is_running' = FALSE
    /\ status_msg' = "Stopping process... Please wait."
    /\ UNCHANGED <<parsed_srt, chunks, results, debugs, chunk_states,
                   final_srt_content, pc, loop_i, retry_i, tc, fvars, script>>

RetryBegin_marks_running(j) ==
    /\ pc = "idle"
    /\ final_srt_content # <<>>
    /\ j < Len(debugs)
    /\ ~debugs[j + 1].none
    /\ tc' = TcEntry(TextsOf(chunks[j + 1]))
    /\ chunk_states' = [chunk_states EXCEPT ![j + 1] = "RUNNING"]
    /\ retry_i' = j
    /\ pc' = "retrying"
    /\ status_msg' = "Retrying Chunk"
    /\ UNCHANGED <<parsed_srt, chunks, results, debugs, is_running, final_srt_content,
                   loop_i, fvars, script>>

\* the Retry button of batch j (0-based), shown once a final text exists and
\* the batch has diagnostics: translate_chunk is called on its texts
RetryBegin(j) ==
    /\ pc = "idle"
    /\ final_srt_content # <<>>
    /\ j < Len(debugs)
    /\ ~debugs[j + 1].none
    /\ tc' = TcEntry(TextsOf(chunks[j + 1]))
    /\ retry_i' = j
    /\ pc' = "retrying"
    /\ status_msg' = "Retrying Chunk"
    /\ UNCHANGED <<session, loop_i, fvars, script>>

RetryStore_no_status ==
    /\ pc = "retrying"
    /\ tc.pc = "returned"
    /\ LET res == [results EXCEPT ![retry_i + 1] = [none |-> FALSE, texts |-> tc.ret]]
       IN  /\ results' = res
           /\ final_srt_content' = rebuild_srt(parsed_srt, safe_results(res, chunks))
    /\ debugs' = [debugs EXCEPT ![retry_i + 1] = [none |-> FALSE, info |-> tc.debug_info]]
    /\ pc' = "idle"
    /\ tc' = TcIdle
    /\ UNCHANGED <<parsed_srt, chunks, chunk_states, is_running, loop_i, retry_i,
                   status_msg, fvars, script>>

\* the retried translate_chunk returned: the batch's slots are overwritten
\* and the final text is rebuilt
RetryStore ==
    /\ pc = "retrying"
    /\ tc.pc = "returned"
    /\ LET res == [results EXCEPT ![retry_i + 1] = [none |-> FALSE, texts |-> tc.ret]]
       IN  /\ results' = res
           /\ final_srt_content' = rebuild_srt(parsed_srt, safe_results(res, chunks))
    /\ debugs' = [debugs EXCEPT ![retry_i + 1] = [none |-> FALSE, info |-> tc.debug_info]]
    /\ chunk_states' = [chunk_states EXCEPT ![retry_i + 1] = StatusOf(tc.debug_info)]
    /\ pc' = "idle"
    /\ tc' = TcIdle
    /\ UNCHANGED <<parsed_srt, chunks, is_running, loop_i, retry_i, status_msg, fvars, script>>

----------------------------------------------------------------------------
(* The job: uploaded texts, chunk sizes, behaviours of the generation call *)

JobBlock(index, text) == [index |-> index, time |-> "T1", text |-> text]

\* uploaded subtitle texts: one with no block, then one, two and three blocks
JobContents ==
    {<<"p">>,
     srt_render(<<JobBlock(<<"1">>, <<"b", "b">>)>>, <<NL, NL>>, <<NL>>),
     srt_render(<<JobBlock(<<"1">>, <<"a">>), JobBlock(<<"2">>, <<"b", "b">>)>>,
                <<NL, NL>>, <<NL>>),
     srt_render(<<JobBlock(<<"1">>, <<"a">>), JobBlock(<<"2">>, <<"b">>),
                  JobBlock(<<"3">>, <<"c">>)>>, <<NL, NL>>, <<NL>>)}

\* the slider's values, scaled to the lengths of the texts above
JobChunkSizes == {1, 3}

\* the translation of a text
Tr(text) == <<"#">> \o text

\* the complete, ordered answer to the texts
FullItems(text_list) ==
    [k \in 1..Len(text_list) |-> Item(IdInt(k - 1), TextOf(Tr(text_list[k])))]

\* the answer without the item of id 0, in reverse order
PartialItems(text_list) ==
    [k \in 1..(Len(text_list) - 1) |->
        Item(IdInt(Len(text_list) - k), TextOf(Tr(text_list[Len(text_list) - k + 1])))]

JobResponses(text_list) ==
    {Raises,
     Returns(<<"p">>, <<>>),
     Answer("plain", FullItems(text_list)),
     Answer("decorated", PartialItems(text_list))}

Init ==
    /\ fname = "job"
    /\ fin = <<>>
    /\ fmid = <<>>
    /\ fout = <<>>
    /\ fpc = "call"
    /\ tc = TcIdle
    /\ SessionInit

Start == \E content \in JobContents : \E chunk_size \in JobChunkSizes : StartJob(content, chunk_size)

StartParseFailed == \E content \in JobContents : StartJobParseFailed(content)

JobGenerate == \E r \in JobResponses(tc.text_list) : TcAttempt(r) /\ UNCHANGED <<fvars, jvars>>

Retry == \E j \in 0..(Len(chunks) - 1) : RetryBegin(j)

Next ==
    \/ Start
    \/ StartParseFailed
    \/ LoopStopped
    \/ LoopBegin
    \/ JobGenerate
    \/ Backoff
    \/ StoreResult
    \/ LoopExhausted
    \/ Finish
    \/ Stop
    \/ Retry
    \/ RetryStore

Spec == Init /\ [][Next]_vars

----------------------------------------------------------------------------
(* src/core.py: the same job driven by main(), run_translation() and       *)
(* render_results_and_repair().  The loop over the batches is the loop of  *)
(* src/app.py; the start, the end of the job, the stop event and the retry *)
(* differ.                                                                 *)

\* some batch has no result yet
HasNone(res) == \E b \in 1..Len(res) : res[b].none

\* core.rebuild_srt(parsed_srt, results) on the stored results as they are:
\* the flattening iterates every entry, and iterating None raises TypeError
rebuild_raw(original_data, res) ==
    IF HasNone(res)
    THEN [err |-> "TypeError", out |-> <<>>]
    ELSE [err |-> "none",
          out |-> rebuild_srt(original_data, [b \in 1..Len(res) |-> res[b].texts])]

\* run_translation on a text that parses: is_running is set, the session is
\* reset for the new job and the loop is entered
CoreStartJob(content, chunk_size) ==
    /\ pc = "idle"
    /\ parse_srt(content) # <<>>
    /\ LET parsed == parse_srt(content)
           chs == chunk_text(parsed, chunk_size)
           total == Len(chs)
       IN  /\ is_running' = TRUE
           /\ parsed_srt' = parsed
           /\ chunks' = chs
           /\ results' = [b \in 1..total |-> NoResult]
           /\ debugs' = [b \in 1..total |-> NoDebug]
           /\ chunk_states' = [b \in 1..total |-> "WAITING"]
    /\ pc' = "loop"
    /\ loop_i' = 0
    /\ status_msg' = ""
    /\ UNCHANGED <<final_srt_content, retry_i, tc, fvars, script>>

CoreStartJobParseFailed_running(content) ==
    /\ pc = "idle"
    /\ parse_srt(content) = <<>>
    /\ is_running' = TRUE
    /\ status_msg' = "SRT parsing failed."
    /\ UNCHANGED <<parsed_srt, chunks, results, debugs, chunk_states,
                   final_srt_content, pc, loop_i, retry_i, tc, fvars, script>>

\* run_translation on a text with no block: is_running is set, the error is
\* shown, is_running is cleared and the function returns
CoreStartJobParseFailed(content) ==
    /\ pc = "idle"
    /\ parse_srt(content) = <<>>
    /\ is_running' = FALSE
    /\ status_msg' = "SRT parsing failed."
    /\ UNCHANGED <<parsed_srt, chunks, results, debugs, chunk_states,
                   final_srt_content, pc, loop_i, retry_i, tc, fvars, script>>

\* the loop of run_translation: the same steps as the loop of src/app.py
CoreLoopStopped == LoopStopped

CoreLoopBegin == LoopBegin

CoreStoreResult == StoreResult

CoreLoopExhausted == LoopExhausted

\* after the loop: is_running is cleared, then the final text is rebuilt from
\* the stored results; an exception of the rebuild ends the script run with
\* final_srt_content as it was
CoreFinish ==
    /\ pc = "finish"
    /\ is_running' = FALSE
    /\ LET rebuilt == rebuild_raw(parsed_srt, results)
       IN  IF rebuilt.err = "none"
           THEN /\ final_srt_content' = rebuilt.out
                /\ status_msg' = ""
           ELSE /\ final_srt_content' = final_srt_content
                /\ status_msg' = rebuilt.err
    /\ pc' = "idle"
    /\ UNCHANGED <<parsed_srt, chunks, results, debugs, chunk_states, loop_i, retry_i,
                   tc, fvars, script>>

\* the "stop_process" event of the sidebar
CoreStop ==
    /\ is_running
    /\ is_running' = FALSE
    /\ status_msg' = "Stopping process... Please wait for the current chunk to finish."
    /\ UNCHANGED <<parsed_srt, chunks, results, debugs, chunk_states,
                   final_srt_content, pc, loop_i, retry_i, tc, fvars, script>>

\* the Retry button of batch j in render_results_and_repair
CoreRetryBegin(j) ==
    /\ pc = "idle"
    /\ final_srt_content # <<>>
    /\ j < Len(debugs)
    /\ ~debugs[j + 1].none
    /\ tc' = TcEntry(TextsOf(chunks[j + 1]))
    /\ retry_i' = j
    /\ pc' = "retrying"
    /\ status_msg' = "Retrying..."
    /\ UNCHANGED <<session, loop_i, fvars, script>>

\* the retried translate_chunk returned: the batch's slots are overwritten,
\* then the final text is rebuilt from the stored results as they are
CoreRetryStore ==
    /\ pc = "retrying"
    /\ tc.pc = "returned"
    /\ LET res == [results EXCEPT ![retry_i + 1] = [none |-> FALSE, texts |-> tc.ret]]
           rebuilt == rebuild_raw(parsed_srt, res)
       IN  /\ results' = res
           /\ IF rebuilt.err = "none"
              THEN /\ final_srt_content' = rebuilt.out
                   /\ status_msg' = ""
              ELSE /\ final_srt_content' = final_srt_content
                   /\ status_msg' = rebuilt.err
    /\ debugs' = [debugs EXCEPT ![retry_i + 1] = [none |-> FALSE, info |-> tc.debug_info]]
    /\ chunk_states' = [chunk_states EXCEPT ![retry_i + 1] = StatusOf(tc.debug_info)]
    /\ pc' = "idle"
    /\ tc' = TcIdle
    /\ UNCHANGED <<parsed_srt, chunks, is_running, loop_i, retry_i, fvars, script>>

\* uploaded texts of the sessions served by src/core.py: no block, one block
\* and two blocks
CoreContents ==
    {<<"p">>,
     srt_render(<<JobBlock(<<"1">>, <<"b", "b">>)>>, <<NL, NL>>, <<NL>>),
     srt_render(<<JobBlock(<<"1">>, <<"a">>), JobBlock(<<"2">>, <<"b", "b">>)>>,
                <<NL, NL>>, <<NL>>)}

InitCore ==
    /\ fname = "job"
    /\ fin = <<>>
    /\ fmid = <<>>
    /\ fout = <<>>
    /\ fpc = "call"
    /\ tc = TcIdle
    /\ SessionDefaults
    /\ script = "core.py"

CoreStart ==
    \E content \in CoreContents : \E chunk_size \in JobChunkSizes :
        CoreStartJob(content, chunk_size)

CoreStartParseFailed == \E content \in CoreContents : CoreStartJobParseFailed(content)

CoreRetry == \E j \in 0..(Len(chunks) - 1) : CoreRetryBegin(j)

NextCore ==
    \/ CoreStart
    \/ CoreStartParseFailed
    \/ CoreLoopStopped
    \/ CoreLoopBegin
    \/ JobGenerate
    \/ Backoff
    \/ CoreStoreResult
    \/ CoreLoopExhausted
    \/ CoreFinish
    \/ CoreStop
    \/ CoreRetry
    \/ CoreRetryStore

SpecCore == InitCore /\ [][NextCore]_vars

\* a session served by either script
InitJobs == Init \/ InitCore

NextJobs ==
    \/ script = "app.py" /\ Next
    \/ script = "core.py" /\ NextCore

SpecJobs == InitJobs /\ [][NextJobs]_vars

----------------------------------------------------------------------------
(* Fairness: the script runs on, and every generation call returns or raises *)

\* the steps the script takes by itself once a job or a retry is under way;
\* the buttons (start, stop, retry) are pressed or not as the user likes
JobSteps ==
    \/ LoopStopped
    \/ LoopBegin
    \/ JobGenerate
    \/ Backoff
    \/ StoreResult
    \/ LoopExhausted
    \/ Finish
    \/ RetryStore

SpecFair == Spec /\ WF_vars(JobSteps)

CoreJobSteps ==
    \/ CoreLoopStopped
    \/ CoreLoopBegin
    \/ JobGenerate
    \/ Backoff
    \/ CoreStoreResult
    \/ CoreLoopExhausted
    \/ CoreFinish
    \/ CoreRetryStore

SpecCoreFair == SpecCore /\ WF_vars(CoreJobSteps)

----------------------------------------------------------------------------
\* C6: concatenating the batches chunk_text returns, in order, gives back
\* exactly the record sequence it was handed: nothing dropped, duplicated
\* or reordered, oversized records included.
C6_ChunkPartition ==
    (fname = "chunk_text" /\ fpc = "ret") => Flatten(fout) = fin.parsed_data

\* a sequence with an oversized record in the middle went through chunk_text
C6_Witness ==
    /\ fname = "chunk_text" /\ fpc = "ret"
    /\ Len(fin.parsed_data) = 3
    /\ Len(fin.parsed_data[2].text) > fin.chunk_size
    /\ Len(fout) = 3

\* C7: chunk_text never emits an empty batch; a record longer than the
\* chunk size sits alone in a one-record batch, a single such record giving
\* exactly one batch; the empty input gives the empty batch list.
C7_NoEmptyBatch ==
    (fname = "chunk_text" /\ fpc = "ret") =>
        /\ \A b \in 1..Len(fout) : Len(fout[b]) >= 1
        /\ \A b \in 1..Len(fout) : \A k \in 1..Len(fout[b]) :
               Len(fout[b][k].text) > fin.chunk_size => Len(fout[b]) = 1
        /\ (Len(fin.parsed_data) = 1 => Len(fout) = 1)
        /\ (fin.parsed_data = <<>> => fout = <<>>)

\* C10: a text holding both braces comes back as the inclusive substring
\* from the first "{" to the last "}", so it begins with "{" and ends
\* with "}", whatever the relative order of the two braces.
C10_BraceSubstring ==
    (fname = "clean_json_text" /\ fpc = "ret"
        /\ Find(fin, "{") # -1 /\ RFind(fin, "}") # -1) =>
        /\ Len(fout) >= 1
        /\ fout[1] = "{"
        /\ fout[Len(fout)] = "}"

\* C10 as amended: when the first "{" is before the last "}" the result is
\* exactly the lexemes from that "{" to that "}" inclusive; when the last
\* "}" is before the first "{" the result is the empty string.
C10_BraceSubstringOrdered ==
    (fname = "clean_json_text" /\ fpc = "ret"
        /\ Find(fin, "{") # -1 /\ RFind(fin, "}") # -1) =>
        LET a == Find(fin, "{") + 1
            b == RFind(fin, "}") + 1
        IN  IF a < b
            THEN /\ Len(fout) = b - a + 1
                 /\ \A k \in 1..Len(fout) : fout[k] = fin[a + k - 1]
                 /\ fout[1] = "{" /\ fout[Len(fout)] = "}"
            ELSE fout = <<>>

\* a fenced, prose-wrapped object was cut out of its decoration
C10_Witness ==
    /\ fname = "clean_json_text" /\ fpc = "ret"
    /\ fin = <<FENCE, "{", "p", "}", FENCE>>
    /\ fout = <<"{", "p", "}">>

\* the text rebuild_srt is to produce for m blocks: block i is index_i,
\* newline, timeRange_i, newline, text_i, newline, and a newline more between
\* consecutive blocks
BlocksText(records, texts, m) ==
    Flatten([k \in 1..m |->
        (IF k > 1 THEN <<NL>> ELSE <<>>)
        \o records[k].index \o <<NL>> \o records[k].time \o <<NL>> \o texts[k] \o <<NL>>])

WellFormedSrt == \A k \in 1..Len(fin.blocks) : FreeText(fin.blocks[k].text)

\* parse_srt returned one record per block, in source order, with the
\* block's index, time range and trimmed text
ParsedAsWritten ==
    /\ Len(fmid) = Len(fin.blocks)
    /\ \A k \in 1..Len(fmid) :
           /\ fmid[k].index = fin.blocks[k].index
           /\ fmid[k].time = <<fin.blocks[k].time>>
           /\ fmid[k].text = Strip(fin.blocks[k].text)

\* C8: for a well-formed subtitle text with N blocks parse_srt returns N
\* records in source order, and rebuild_srt(records, [r.text for r in
\* records]) gives N blocks with the same indices, time ranges and texts.
C8_RoundTripTexts ==
    (fname = "parse_srt" /\ WellFormedSrt) =>
        /\ fpc # "call" => ParsedAsWritten
        /\ fpc = "rebuilt_texts" => fout = BlocksText(fmid, TextsOf(fmid), Len(fin.blocks))

\* C8 as amended: the same, with the texts handed to rebuild_srt as one
\* batch, rebuild_srt(records, [[r.text for r in records]]).
C8_RoundTripBatch ==
    (fname = "parse_srt" /\ WellFormedSrt) =>
        /\ fpc # "call" => ParsedAsWritten
        /\ fpc = "rebuilt_batch" =>
               /\ fout = BlocksText(fmid, TextsOf(fmid), Len(fin.blocks))
               /\ parse_srt(fout) = fmid

\* two well-formed blocks, one with a blank line inside its text, were
\* parsed and rebuilt from one batch
C8_Witness ==
    /\ fname = "parse_srt" /\ fpc = "rebuilt_batch" /\ WellFormedSrt
    /\ Len(fin.blocks) = 2 /\ Len(fmid) = 2
    /\ fin.blocks[1].text = <<"x", NL, NL, "y">>
    /\ fmid[2].index = <<"1", "2">>

\* C9: rebuild_srt emits min(number of records, number of translated
\* strings over all batches) blocks, block i being index_i, newline,
\* timeRange_i, newline, translation_i, newline, with one blank line between
\* consecutive blocks; the surplus on either side is ignored, nothing padded.
C9_RebuildMin ==
    (fname = "rebuild_srt" /\ fpc = "ret") =>
        LET flat == Flatten(fin.chunks_translated)
        IN  fout = BlocksText(fin.original_data, flat,
                              Min(Len(fin.original_data), Len(flat)))

\* three records were rebuilt from two translated strings in two batches
C9_Witness ==
    /\ fname = "rebuild_srt" /\ fpc = "ret"
    /\ Len(fin.original_data) = 3
    /\ fin.chunks_translated = <<<<<<"A">>>>, <<<<"B", "C">>>>>>
    /\ fout = <<"1", NL, "T1", NL, "A", NL, NL, "2", NL, "T1", NL, "B", "C", NL>>

\* the error statuses the except block can write
ErrorStatuses ==
    {"Error: generate", "Error: JSONDecodeError", "Error: TypeError",
     "Error: AttributeError", "Error: IndexError", "Error: ValueError"}
    \cup {"Error: " \o LessNotSupported(a, b) : a, b \in {IdInt(0), IdStr, IdNull}}

\* C1: whatever the generation call does on each attempt, the list
\* translate_chunk returns has exactly as many entries as the input list.
C1_Cardinality ==
    tc.pc = "returned" => Len(tc.ret) = Len(tc.text_list)

\* three texts came back from a response of two items, one of them with an
\* id outside the batch
C1_Witness ==
    /\ tc.pc = "returned" /\ Len(tc.text_list) = 3 /\ Len(tc.ret) = 3
    /\ tc.debug_info.status = "Success"
    /\ tc.items.got /\ Len(tc.items.list) = 2
    /\ tc.items.list[1].id = IdInt(3)
    /\ tc.items.list[2].id = IdInt(1)

\* position i of the returned list is the text of an item of the array whose
\* id is i (the empty string when that item has no text) when there is such
\* an item, and the original text at i otherwise
ReconciledWith(items) ==
    \A i \in 0..(Len(tc.text_list) - 1) :
        IF \E k \in 1..Len(items) : IdIs(items[k], i)
        THEN \E k \in 1..Len(items) : IdIs(items[k], i) /\ tc.ret[i + 1] = GetText(items[k])
        ELSE tc.ret[i + 1] = tc.text_list[i + 1]

\* C2: whenever the attempt that ends the call obtained an item array from
\* the response, the returned list is reconciled with that array: each
\* position holds the text of an item with that id, or the original text.
C2_Reconciled ==
    (tc.pc = "returned" /\ tc.items.got) => ReconciledWith(tc.items.list)

\* C2 as amended: the same whenever the attempt obtained an item array and
\* sorting it by id did not raise, which is whenever the attempt succeeded.
C2_ReconciledSorted ==
    (tc.pc = "returned" /\ tc.debug_info.status = "Success") =>
        /\ tc.items.got
        /\ sort_items(ListValue(tc.items.list)).err = "none"
        /\ ReconciledWith(tc.items.list)

\* [a, b, c] with the response items {id 2: X, id 0: Y} gave [Y, b, X]
C2_Witness ==
    /\ tc.pc = "returned" /\ tc.debug_info.status = "Success"
    /\ tc.text_list = <<<<"a">>, <<"b">>, <<"c">>>>
    /\ tc.items.list = <<Item(IdInt(2), TextOf(<<"X">>)), Item(IdInt(0), TextOf(<<"Y">>))>>
    /\ tc.ret = <<<<"Y">>, <<"b">>, <<"X">>>>

\* C3: when every attempt failed, translate_chunk returns the input texts
\* unchanged and in order, with an error status and attempts = 2.
C3_ExhaustedPassthrough ==
    (tc.pc = "returned" /\ tc.calls > 0 /\ tc.failed = tc.calls) =>
        /\ tc.ret = tc.text_list
        /\ tc.debug_info.status # "Success"
        /\ tc.debug_info.status \in ErrorStatuses
        /\ tc.debug_info.attempts = 2

\* two texts came back untranslated after the call raised and the retry
\* returned text that is not JSON
C3_Witness ==
    /\ tc.pc = "returned" /\ tc.failed = 2 /\ tc.calls = 2
    /\ tc.text_list = <<<<"a">>, <<"b">>>>
    /\ tc.ret = <<<<"a">>, <<"b">>>>
    /\ tc.debug_info.status = "Error: JSONDecodeError"
    /\ tc.debug_info.raw_response = <<"p">>

\* C4: no exception leaves translate_chunk: whatever the texts and whatever
\* the call raises or returns, the call ends by returning its pair.
C4_NoPropagation ==
    /\ tc.pc # "raised"
    /\ tc.pc = "sleep" => tc.debug_info.status \in ErrorStatuses

\* a call on the empty list returned after a response whose only item is not
\* an object made the sort raise in both attempts
C4_Witness ==
    /\ tc.pc = "returned" /\ tc.text_list = <<>> /\ tc.failed = 2
    /\ tc.debug_info.status = "Error: AttributeError"
    /\ tc.ret = <<>>

\* the per-batch results of the session, concatenated in batch order
FlatResults == Flatten([b \in 1..Len(results) |-> results[b].texts])

\* the job loop went through every batch and the script is back at rest
RanThrough ==
    /\ pc = "idle"
    /\ chunks # <<>>
    /\ loop_i = Len(chunks)
    /\ \A b \in 1..Len(results) : ~results[b].none

\* C5: after a job ran through all its batches, the rebuilt text has one block
\* per parsed record, and block j carries the index and the time range of
\* record j with the j-th text of the concatenated per-batch results, which is
\* the translation of record j's text or that text itself.
C5_Alignment ==
    RanThrough =>
        /\ Len(FlatResults) = Len(parsed_srt)
        /\ final_srt_content = BlocksText(parsed_srt, FlatResults, Len(parsed_srt))
        /\ \A j \in 1..Len(parsed_srt) :
               FlatResults[j] \in {parsed_srt[j].text, Tr(parsed_srt[j].text)}

C5_Witness ==
    /\ RanThrough
    /\ Len(chunks) = 3
    /\ chunk_states = <<"SUCCESS", "ERROR", "SUCCESS">>
    /\ FlatResults = <<<<"#", "a">>, <<"b">>, <<"#", "c">>>>
    /\ final_srt_content =
           <<"1", NL, "T1", NL, "#", "a", NL, NL,
             "2", NL, "T1", NL, "b", NL, NL,
             "3", NL, "T1", NL, "#", "c", NL>>

\* every member of the item array is an object whose id is an integer
IntegerIds(items) ==
    \A k \in 1..Len(items) : items[k].isdict /\ items[k].id.t = "int"

\* the positions of the batch no item of the array answers
Omitted(items) ==
    {p \in 0..(Len(tc.text_list) - 1) : \A k \in 1..Len(items) : items[k].id # IdInt(p)}

\* C11: a response that parses into an item array of objects with integer ids
\* and omits some positions is not an error: the call returns on that attempt
\* (the only calls before it are the failed ones) with status Success, and
\* every omitted position holds its original text.
C11_OmissionIsSuccess ==
    (tc.pc = "returned" /\ tc.items.got /\ IntegerIds(tc.items.list)) =>
        /\ tc.debug_info.status = "Success"
        /\ tc.calls = tc.failed + 1
        /\ \A p \in Omitted(tc.items.list) : tc.ret[p + 1] = tc.text_list[p + 1]

\* a first attempt whose array is empty: all three positions omitted
C11_Witness ==
    /\ tc.pc = "returned" /\ tc.calls = 1 /\ tc.failed = 0
    /\ tc.items.got /\ tc.items.list = <<>>
    /\ Len(tc.text_list) = 3 /\ tc.ret = tc.text_list
    /\ tc.debug_info.status = "Success"

\* C12: one call of translate_chunk issues at most two generation calls; the
\* second is issued only at attempt 1, reached only through the backoff step
\* that follows the failed first attempt; a successful attempt and the second
\* attempt end the call.
C12_AtMostTwoCalls ==
    [][(tc' # tc /\ tc.pc \in {"call", "sleep"}) =>
        /\ tc'.calls <= 2
        /\ tc'.calls # tc.calls =>
              /\ tc.pc = "call" /\ tc'.calls = tc.calls + 1
              /\ tc.calls = 1 => (tc.failed = 1 /\ tc.attempt = 1)
        /\ tc'.attempt # tc.attempt =>
              /\ tc.pc = "sleep" /\ tc'.pc = "call"
              /\ tc.attempt = 0 /\ tc'.attempt = 1
              /\ tc.failed = 1 /\ tc.calls = 1 /\ tc'.calls = 1
        /\ tc'.pc = "sleep" => (tc.pc = "call" /\ tc.attempt = 0 /\ tc'.failed = 1)
        /\ (tc.pc = "call" /\ tc'.failed = tc.failed) => tc'.pc = "returned"
        /\ (tc.pc = "call" /\ tc.attempt = 1) => tc'.pc = "returned"]_vars

\* the call went through failure, backoff and a second generation call
C12_Witness ==
    /\ tc.pc = "returned" /\ tc.calls = 2 /\ tc.failed = 1 /\ tc.attempt = 1
    /\ tc.debug_info.status = "Success" /\ tc.debug_info.attempts = 2

\* C19: the diagnostics hold only data of the attempt that produced the
\* result: when the final attempt received no text (the generation call
\* raised), raw_response is empty.
C19_FreshDiagnostics ==
    (tc.pc = "returned" /\ tc.debug_info.status = "Error: generate") =>
        tc.debug_info.raw_response = <<>>

\* C20: called with no text, translate_chunk issues no generation call.
C20_EmptyNoCall ==
    tc.text_list = <<>> => tc.calls = 0

RECURSIVE TotalLength(_)
\* the summed text length of the records of a batch
TotalLength(batch) ==
    IF batch = <<>> THEN 0 ELSE Len(Head(batch).text) + TotalLength(Tail(batch))

\* C18: chunk_text is greedy within the budget: a batch of more than one
\* record has a total text length of at most the chunk size, and the first
\* record of every later batch would not have fitted in the batch before it.
C18_Greedy ==
    (fname = "chunk_text" /\ fpc = "ret") =>
        /\ \A b \in 1..Len(fout) :
               Len(fout[b]) > 1 => TotalLength(fout[b]) <= fin.chunk_size
        /\ \A b \in 1..(Len(fout) - 1) :
               /\ fout[b + 1] # <<>>
               /\ TotalLength(fout[b]) + Len(fout[b + 1][1].text) > fin.chunk_size

\* three records of equal length, two of which fill the budget, came back as
\* a batch of two and a batch of one (lengths [4,4,4] with chunk size 10,
\* scaled to the bounds)
C18_Witness ==
    /\ fname = "chunk_text" /\ fpc = "ret"
    /\ fin.chunk_size = 2
    /\ fin.parsed_data = <<Rec(1, 1), Rec(2, 1), Rec(3, 1)>>
    /\ fout = <<<<Rec(1, 1), Rec(2, 1)>>, <<Rec(3, 1)>>>>

\* C13: cancellation is honoured only at batch boundaries.  In every step
\* taken while a job is in its loop with is_running cleared: no batch becomes
\* RUNNING and no generation call is issued outside the batch in flight; a
\* batch in flight goes on until its result is stored; at the loop head the
\* only step is the one that leaves the loop.  So one batch at most completes
\* after the request.
C13_CancelAtBoundary ==
    [][(~is_running /\ pc \in {"loop", "translating"}) =>
        /\ \A b \in 1..Len(chunk_states) :
               chunk_states'[b] = "RUNNING" => chunk_states[b] = "RUNNING"
        /\ tc'.calls > tc.calls => pc = "translating"
        /\ pc = "loop" =>
               /\ pc' = "finish"
               /\ results' = results /\ tc' = tc /\ loop_i' = loop_i
        /\ pc = "translating" =>
               \/ /\ pc' = "translating"
                  /\ results' = results /\ loop_i' = loop_i
               \/ /\ pc' = "loop"
                  /\ tc.pc = "returned"
                  /\ loop_i' = loop_i + 1
                  /\ results' = [results EXCEPT
                                    ![loop_i + 1] = [none |-> FALSE, texts |-> tc.ret]]]_vars

\* a job of three batches stopped around its first batch: that batch stored
\* its result, the second and the third were never started
C13_Witness ==
    /\ pc = "finish" /\ ~is_running
    /\ Len(chunks) = 3 /\ loop_i = 1
    /\ ~results[1].none /\ results[2].none /\ results[3].none
    /\ chunk_states[2] = "WAITING" /\ chunk_states[3] = "WAITING"
    /\ status_msg = "Stopped at Chunk"

\* C14: a batch that ends in error is not fatal to the job: its slot holds
\* the original texts with the status ERROR, and a job whose flag was never
\* cleared leaves the loop only after every batch has been attempted.
C14_ErrorNotFatal ==
    /\ (pc = "finish" /\ is_running) =>
           /\ loop_i = Len(chunks)
           /\ \A b \in 1..Len(chunks) :
                  ~results[b].none /\ chunk_states[b] \in {"SUCCESS", "ERROR"}
    /\ \A b \in 1..Len(chunk_states) :
           chunk_states[b] = "ERROR" =>
               /\ ~results[b].none
               /\ results[b].texts = TextsOf(chunks[b])
               /\ debugs[b].info.status \in ErrorStatuses

\* the first batch ended in error and the two after it were translated
C14_Witness ==
    /\ pc = "finish" /\ is_running
    /\ chunk_states = <<"ERROR", "SUCCESS", "SUCCESS">>
    /\ results[1].texts = <<<<"a">>>>
    /\ results[3].texts = <<<<"#", "c">>>>

\* the stored result of each batch, or the original texts of a batch that has
\* none
OutputsOf(res) ==
    [b \in 1..Len(res) |-> IF res[b].none THEN TextsOf(chunks[b]) ELSE res[b].texts]

\* C15: the step that ends a retry of batch retry_i has translated the texts
\* of that batch, replaces its result, diagnostics and status by the new
\* outcome, leaves every other batch as it was and rebuilds the final text
\* from the updated results.
C15_RetryReplaces ==
    [][(pc = "retrying" /\ pc' = "idle") =>
        /\ tc.text_list = TextsOf(chunks[retry_i + 1])
        /\ results'[retry_i + 1] = [none |-> FALSE, texts |-> tc.ret]
        /\ debugs'[retry_i + 1] = [none |-> FALSE, info |-> tc.debug_info]
        /\ chunk_states'[retry_i + 1] =
               (IF tc.debug_info.status = "Success" THEN "SUCCESS" ELSE "ERROR")
        /\ \A b \in 1..Len(chunks) :
               b # retry_i + 1 =>
                   /\ results'[b] = results[b]
                   /\ debugs'[b] = debugs[b]
                   /\ chunk_states'[b] = chunk_states[b]
        /\ LET flat == Flatten(OutputsOf(results'))
           IN  final_srt_content' =
                   BlocksText(parsed_srt, flat, Min(Len(parsed_srt), Len(flat)))]_vars

ParseFailureMessages == {"Parsing Failed.", "SRT parsing failed."}

\* C16: the start of a job on a text that yields no record shows the parse
\* error and nothing else: no batch list, result, diagnostics, status,
\* parsed record or final text changes, no translate_chunk call exists, and
\* is_running is false afterwards.
C16_ParseFailureNoState ==
    [][(pc = "idle" /\ status_msg' \in ParseFailureMessages) =>
        /\ UNCHANGED <<parsed_srt, chunks, results, debugs, chunk_states,
                       final_srt_content>>
        /\ ~is_running'
        /\ pc' = "idle"
        /\ tc = TcIdle /\ tc' = TcIdle]_vars

\* a start on the text without a block, after a job of two batches finished
C16_Witness ==
    /\ status_msg \in ParseFailureMessages
    /\ pc = "idle" /\ ~is_running
    /\ final_srt_content # <<>>
    /\ Len(results) = 2 /\ ~results[1].none /\ ~results[2].none

\* C17: the step that ends a job, cancelled or not, rebuilds the final text
\* without raising, the batches that never ran contributing their original
\* texts, so that the final text has one block for every parsed record.
C17_CancelledStillRebuilds ==
    [][(pc = "finish" /\ pc' = "idle") =>
        /\ status_msg' # "TypeError"
        /\ Len(Flatten(OutputsOf(results))) = Len(parsed_srt)
        /\ final_srt_content' =
               BlocksText(parsed_srt, Flatten(OutputsOf(results)), Len(parsed_srt))]_vars

\* the permutations of 1..n
Perms(n) == {f \in [1..n -> 1..n] : \A j, k \in 1..n : f[j] = f[k] => j = k}

\* the items of the array are objects that carry pairwise distinct ids
DistinctIds(items) ==
    /\ \A k \in 1..Len(items) : items[k].isdict /\ items[k].id # IdAbsent
    /\ \A j, k \in 1..Len(items) : j # k => items[j].id # items[k].id

\* what the attempt that ended the call gives on the item array items, sent
\* under translated_items: the returned list and the status
OutcomeOn(items) ==
    LET tb == try_block(tc.text_list, <<"{", "J", "}">>,
                        <<Member("translated_items", ListValue(items))>>)
    IN  IF tb.err = "none"
        THEN [ret |-> tb.out, status |-> "Success"]
        ELSE [ret |-> exhausted_return(tc.text_list), status |-> "Error: " \o tb.err]

\* C21 as stated: when the items of the response have pairwise distinct ids,
\* every permutation of the array gives the returned list and the status the
\* call ended with.
C21_OrderIndependent ==
    (tc.pc = "returned" /\ tc.items.got /\ DistinctIds(tc.items.list)) =>
        \A f \in Perms(Len(tc.items.list)) :
            LET permuted == [k \in 1..Len(tc.items.list) |-> tc.items.list[f[k]]]
            IN  /\ OutcomeOn(permuted).ret = tc.ret
                /\ OutcomeOn(permuted).status = tc.debug_info.status

\* C21 as amended: every permutation gives the same returned list and
\* succeeds or fails alike; the status is the same whenever the ids are
\* integers (the sort by id cannot raise).
C21_OrderIndependentIntegerIds ==
    (tc.pc = "returned" /\ tc.items.got /\ DistinctIds(tc.items.list)) =>
        \A f \in Perms(Len(tc.items.list)) :
            LET permuted == [k \in 1..Len(tc.items.list) |-> tc.items.list[f[k]]]
            IN  /\ OutcomeOn(permuted).ret = tc.ret
                /\ OutcomeOn(permuted).status = "Success"
                       <=> tc.debug_info.status = "Success"
                /\ IntegerIds(tc.items.list) =>
                       OutcomeOn(permuted).status = tc.debug_info.status

\* the items of ids 1 and 0, in that order, answered the texts [a, b]
C21_Witness ==
    /\ tc.pc = "returned" /\ tc.debug_info.status = "Success"
    /\ tc.text_list = <<<<"a">>, <<"b">>>>
    /\ tc.items.list = <<Item(IdInt(1), TextOf(<<"X">>)), Item(IdInt(0), TextOf(<<"Y">>))>>
    /\ tc.ret = <<<<"Y">>, <<"X">>>>

\* what the try block gives on an object with the members body: the
\* exception it raises, the translated list and the item array it picked
OnObject(body) ==
    LET tb == try_block(tc.text_list, <<"{", "J", "}">>, body)
    IN  [err |-> tb.err, out |-> tb.out, list |-> tb.items.list]

\* C22: without a translated_items key the item array is the first value of
\* the object: the items of the call, sent under one differently named key,
\* or under such a key followed by further members, give what they give under
\* translated_items; and translated_items is used wherever it stands among
\* other members.
C22_FallbackFirstValue ==
    (tc.pc = "returned" /\ tc.items.got) =>
        LET its == ListValue(tc.items.list)
            named == OnObject(<<Member("translated_items", its)>>)
        IN  /\ OnObject(<<Member("result", its)>>) = named
            /\ OnObject(<<Member("result", its), Member("note", ScalarValue)>>) = named
            /\ OnObject(<<Member("note", ScalarValue), Member("translated_items", its)>>) = named
            /\ OnObject(<<Member("result", ListValue(<<>>)), Member("translated_items", its)>>)
                   = named
            /\ OnObject(<<Member("translated_items", its), Member("note", ScalarValue)>>) = named
            /\ tc.debug_info.status = "Success" =>
                   named.err = "none" /\ named.out = tc.ret

\* a call answered under the key "result" alone ended in Success with the
\* text of the item
C22_Witness ==
    /\ tc.pc = "returned" /\ tc.debug_info.status = "Success"
    /\ tc.calls = 1 /\ tc.items.key = "result"
    /\ tc.text_list = <<<<"a">>>>
    /\ tc.items.list = <<Item(IdInt(0), TextOf(<<"X">>))>>
    /\ tc.ret = <<<<"X">>>>

----------------------------------------------------------------------------
(* One batch at a time, in increasing index order                          *)

Stored(b) ==
    /\ ~results[b].none
    /\ ~debugs[b].none
    /\ chunk_states[b] \in {"SUCCESS", "ERROR"}

\* C23: at most one batch is RUNNING in any state, a batch that has been
\* started has every batch before it stored (result, diagnostics and final
\* status), and translate_chunk works on the texts of the one RUNNING batch
C23_OneAtATime ==
    /\ Cardinality({b \in 1..Len(chunk_states) : chunk_states[b] = "RUNNING"}) <= 1
    /\ \A b \in 1..Len(chunk_states) :
           chunk_states[b] # "WAITING" => \A j \in 1..(b - 1) : Stored(j)
    /\ \A b \in 1..Len(chunk_states) :
           chunk_states[b] = "RUNNING" =>
               /\ pc = "translating" /\ loop_i = b - 1
               /\ tc.text_list = TextsOf(chunks[b])
    /\ pc = "translating" => chunk_states[loop_i + 1] = "RUNNING"

C23_Witness ==
    /\ Len(chunk_states) = 3
    /\ chunk_states = <<"SUCCESS", "RUNNING", "WAITING">>
    /\ Stored(1) /\ results[2].none /\ debugs[2].none
    /\ pc = "translating" /\ tc.pc = "call" /\ tc.calls = 1

----------------------------------------------------------------------------
(* The parsed records after parsing                                        *)

\* the step of "Start Translation Process" that parses and chunks
StartStep == pc = "idle" /\ pc' = "loop"

\* C24: parsed_srt and the batches made of its records change in no step
\* other than the start of a job, which parses anew; the batches always hold
\* the parsed records, whole and in order; translated text goes to results and
\* final_srt_content only
C24_ParsedImmutable ==
    [][/\ parsed_srt' # parsed_srt => StartStep
       /\ chunks' # chunks => StartStep
       /\ Flatten(chunks') = parsed_srt'
       /\ (results' # results \/ final_srt_content' # final_srt_content) /\ ~StartStep
              => parsed_srt' = parsed_srt /\ chunks' = chunks]_vars

C24_Witness ==
    /\ pc = "idle"
    /\ TextsOf(parsed_srt) = <<<<"a">>, <<"b">>, <<"c">>>>
    /\ Len(chunks) = 3
    /\ \A b \in 1..3 : Stored(b) /\ chunk_states[b] = "SUCCESS"
                       /\ results[b].texts = <<Tr(parsed_srt[b].text)>>
    /\ final_srt_content # <<>>
    /\ Flatten(chunks) = parsed_srt

----------------------------------------------------------------------------
(* The sample of analyze_context                                           *)

\* C25: the sample starts with the first 3000 characters of the document (the
\* whole document when it is shorter); for a document of more than 5000
\* characters, and only then, the separator and the 2000 characters from index
\* len // 2 on follow; for 5000 characters or fewer the sample ends there
C25_Sample ==
    fpc = "analyzed" =>
        LET n == Len(fin)
            head == Min(n, SampleHead)
            mid == n \div 2
        IN  /\ Len(fmid) >= head
            /\ \A k \in 1..head : fmid[k] = fin[k]
            /\ n > LongDocument =>
                   /\ Len(fmid) = SampleHead + Len(SampleSeparator) + SampleMid
                   /\ \A k \in 1..Len(SampleSeparator) :
                          fmid[SampleHead + k] = SampleSeparator[k]
                   /\ \A k \in 1..SampleMid :
                          fmid[SampleHead + Len(SampleSeparator) + k] = fin[mid + k]
            /\ n <= LongDocument => Len(fmid) = head
            /\ fout.sample = fmid

C25_Witness ==
    /\ fpc = "analyzed"
    /\ Len(fin) = LongDocument + 1
    /\ Len(fmid) = 5003
    /\ fmid[3000] = "3000" /\ fmid[3002] = "..." /\ fmid[3004] = "2501" /\ fmid[5003] = "4500"
    /\ ~fout.raised /\ fout.guide = <<"g">>

----------------------------------------------------------------------------
(* The outcome of a call is that of its last attempt                       *)

\* C26: the attempt that ends the call decides the outcome. When it succeeds,
\* the status is 'Success', attempts is the number of that attempt and the
\* returned list is reconciled with the items of that attempt, also when an
\* error status had been recorded after a failed first attempt; a success of
\* the first attempt gives attempts = 1. The call ends in failure only at the
\* second attempt.
C26_LastAttemptDecides ==
    [][/\ tc'.pc = "sleep" =>
              tc'.debug_info.status \in ErrorStatuses /\ tc'.debug_info.attempts = 1
       /\ (tc.pc = "call" /\ tc'.pc = "returned") =>
              /\ tc'.debug_info.attempts = tc.attempt + 1
              /\ tc'.debug_info.attempts = tc'.calls
              /\ tc'.failed = tc.failed =>
                     /\ tc'.debug_info.status = "Success"
                     /\ tc'.items.got
                     /\ ReconciledWith(tc.items.list)'
              /\ (tc'.failed = tc.failed /\ tc.attempt = 0) => tc'.debug_info.attempts = 1
              /\ (tc'.failed = tc.failed /\ tc.attempt = 1) =>
                     /\ tc.debug_info.status \in ErrorStatuses
                     /\ tc'.debug_info.attempts = 2
              /\ tc'.failed # tc.failed =>
                     /\ tc.attempt = 1
                     /\ tc'.debug_info.status \in ErrorStatuses
                     /\ tc'.ret = tc.text_list]_vars

\* a failed first attempt followed by a second one that translated the text
C26_Witness ==
    /\ tc.pc = "returned" /\ tc.calls = 2 /\ tc.failed = 1
    /\ tc.text_list = <<<<"a">>, <<"b">>>>
    /\ tc.ret = <<<<"X">>, <<"Y">>>>
    /\ tc.debug_info.status = "Success" /\ tc.debug_info.attempts = 2

----------------------------------------------------------------------------
(* The status of a batch                                                   *)

Final == {"SUCCESS", "ERROR"}

\* the job loop is over: the script is past it, at rest, or in a retry
LoopEnded == pc \in {"finish", "idle", "retrying"}

\* the batches that are not WAITING are the first ones of the list
NonWaitingPrefix ==
    \A b \in 1..Len(chunk_states) :
        chunk_states[b] # "WAITING" => \A j \in 1..(b - 1) : chunk_states[j] # "WAITING"

\* C27: the start of a job makes a fresh list of WAITING statuses; in every
\* other step a status changes only from WAITING to RUNNING when the loop
\* begins that batch, from RUNNING to SUCCESS or ERROR when its call has
\* returned, and between SUCCESS and ERROR when the retry of that batch has
\* returned; once the loop has ended no batch is RUNNING and the batches that
\* are not WAITING form a prefix
C27_StatusTransitions ==
    [][/\ StartStep => \A b \in 1..Len(chunk_states') : chunk_states'[b] = "WAITING"
       /\ ~StartStep =>
              /\ Len(chunk_states') = Len(chunk_states)
              /\ \A b \in 1..Len(chunk_states) :
                     chunk_states'[b] # chunk_states[b] =>
                         \/ /\ chunk_states[b] = "WAITING" /\ chunk_states'[b] = "RUNNING"
                            /\ pc = "loop" /\ pc' = "translating" /\ b = loop_i + 1
                         \/ /\ chunk_states[b] = "RUNNING" /\ chunk_states'[b] \in Final
                            /\ pc = "translating" /\ tc.pc = "returned" /\ b = loop_i + 1
                         \/ /\ chunk_states[b] \in Final /\ chunk_states'[b] \in Final
                            /\ pc = "retrying" /\ tc.pc = "returned" /\ b = retry_i + 1
       /\ LoopEnded' =>
              /\ \A b \in 1..Len(chunk_states') : chunk_states'[b] # "RUNNING"
              /\ NonWaitingPrefix']_vars

\* a cancelled job of three batches, the second of them retried since
C27_Witness ==
    /\ pc = "idle" /\ ~is_running
    /\ status_msg = "Retrying Chunk" /\ retry_i = 1
    /\ chunk_states = <<"ERROR", "SUCCESS", "WAITING">>
    /\ debugs[2].info.attempts = 2

----------------------------------------------------------------------------
(* The session lists                                                       *)

\* the script is between two passes of the job loop, past the loop, or at rest
AtBoundary == pc \in {"loop", "finish", "idle"}

\* C28: at every batch boundary and at rest, results, debugs and chunk_states
\* have one slot per batch; a result is set exactly when the diagnostics are
\* set, exactly when the status is SUCCESS or ERROR; the status is SUCCESS
\* exactly when the diagnostics say 'Success'; a set result has one text per
\* record of its batch
C28_Aligned ==
    AtBoundary =>
        /\ Len(results) = Len(chunks)
        /\ Len(debugs) = Len(chunks)
        /\ Len(chunk_states) = Len(chunks)
        /\ \A b \in 1..Len(chunks) :
               /\ ~results[b].none <=> ~debugs[b].none
               /\ ~debugs[b].none <=> chunk_states[b] \in Final
               /\ chunk_states[b] = "SUCCESS" <=>
                      (~debugs[b].none /\ debugs[b].info.status = "Success")
               /\ ~results[b].none => Len(results[b].texts) = Len(chunks[b])

\* a cancelled job at rest: a translated batch, a failed one, one never run
C28_Witness ==
    /\ pc = "idle" /\ status_msg \in {"Complete!", "TypeError"}
    /\ Len(chunks) = 3
    /\ chunk_states = <<"SUCCESS", "ERROR", "WAITING">>
    /\ results[1].texts = <<Tr(parsed_srt[1].text)>>
    /\ results[2].texts = TextsOf(chunks[2])
    /\ debugs[2].info.status \in ErrorStatuses
    /\ results[3].none /\ debugs[3].none

----------------------------------------------------------------------------
(* Termination of a job                                                    *)

\* the job is over: the script is at rest, is_running is cleared and the
\* final text is the one rebuilt from the results gathered so far
JobOver ==
    /\ pc = "idle"
    /\ ~is_running
    /\ final_srt_content = rebuild_srt(parsed_srt, safe_results(results, chunks))

\* C29: every started job terminates: the loop ends, is_running is reset and
\* final_srt_content is set from the results gathered so far
C29_Terminates == (pc = "loop") ~> JobOver

----------------------------------------------------------------------------
(* Items with the same id, items that match no position                    *)

\* the items of the array carry the id i at two places or more
Repeated(items, i) ==
    \E j, k \in 1..Len(items) : j # k /\ IdIs(items[j], i) /\ IdIs(items[k], i)

\* the first place of the array whose item carries the id i
FirstWith(items, i) ==
    CHOOSE k \in 1..Len(items) : IdIs(items[k], i) /\ \A j \in 1..(k - 1) : ~IdIs(items[j], i)

\* the item carries the id of a position of the K texts
Matches(item) == \E i \in 0..(Len(tc.text_list) - 1) : IdIs(item, i)

\* the array with one item left out
Without(items, k) == SubSeq(items, 1, k - 1) \o SubSeq(items, k + 1, Len(items))

\* position i holds the text of the first item of the response array that
\* carries the id i, for every id the array repeats; leaving out an item
\* that matches no position changes no entry of the returned list
FirstRepeatedWins(items) ==
    /\ \A i \in 0..(Len(tc.text_list) - 1) :
           Repeated(items, i) => tc.ret[i + 1] = GetText(items[FirstWith(items, i)])
    /\ \A k \in 1..Len(items) :
           ~Matches(items[k]) => OutcomeOn(Without(items, k)).ret = tc.ret

\* C30 as stated: whenever the attempt that ends the call obtained an item
\* array, the first of several items with the same id gives the text of its
\* position, and items that match no position change no output entry.
C30_FirstRepeatedWins ==
    (tc.pc = "returned" /\ tc.items.got) => FirstRepeatedWins(tc.items.list)

\* C30 as amended: the same whenever the attempt succeeded, that is whenever
\* every item is an object and the sort by id did not raise.
C30_FirstRepeatedWinsSorted ==
    (tc.pc = "returned" /\ tc.debug_info.status = "Success") =>
        /\ tc.items.got
        /\ FirstRepeatedWins(tc.items.list)

\* [a, b] with the response items {id 0: Y}, {id 0: X} gave [Y, b]
C30_Witness ==
    /\ tc.pc = "returned" /\ tc.debug_info.status = "Success"
    /\ tc.text_list = <<<<"a">>, <<"b">>>>
    /\ tc.items.list = <<Item(IdInt(0), TextOf(<<"Y">>)), Item(IdInt(0), TextOf(<<"X">>))>>
    /\ Repeated(tc.items.list, 0)
    /\ tc.ret = <<<<"Y">>, <<"b">>>>

====
